---- MODULE Spec2Model ----
(***************************************************************************)
(* Model of SL_3_Near_Field_and_Source_Level.ipynb: the on-axis field       *)
(* intensity calculator far_and_full_field_intensity_on_axis and the        *)
(* slider-driven display update_far_and_full_field_intensity_on_axis.       *)
(*                                                                          *)
(* Python/numpy floating point numbers are modelled by decimal floating     *)
(* point numbers with a five-limb mantissa in base 10^4 (16 to 20           *)
(* significant digits, results truncated), so that every product of two     *)
(* limbs fits a 32-bit integer.  A number is a record                       *)
(*     [k |-> kind, sg |-> sign, e |-> exponent, m |-> mantissa]            *)
(* of value  sg * (m[1] + m[2]/B + m[3]/B^2 + m[4]/B^3 + m[5]/B^4) * B^e    *)
(* with B = 10^4 and 1 <= m[1] < B when k = "fin"; the kinds "zero",        *)
(* "inf" and "nan" are the IEEE special values numpy produces.              *)
(*                                                                          *)
(* Intermediate values are handed on as operator arguments rather than      *)
(* named in LET, so that each is evaluated once.                            *)
(***************************************************************************)
EXTENDS Integers, Sequences, FiniteSets, TLC

\* Base of one mantissa limb.
Base == 10000

ZeroM == <<0, 0, 0, 0, 0>>
OneM == <<1, 0, 0, 0, 0>>

\* ---------------------------------------------------------------------
\* Mantissa (limb tuple) arithmetic
\* ---------------------------------------------------------------------

\* -1, 0, 1 as A < B, A = B, A > B (limbs compared from the most significant).
MCmp(A, B) ==
    IF A[1] # B[1] THEN (IF A[1] < B[1] THEN -1 ELSE 1)
    ELSE IF A[2] # B[2] THEN (IF A[2] < B[2] THEN -1 ELSE 1)
    ELSE IF A[3] # B[3] THEN (IF A[3] < B[3] THEN -1 ELSE 1)
    ELSE IF A[4] # B[4] THEN (IF A[4] < B[4] THEN -1 ELSE 1)
    ELSE IF A[5] # B[5] THEN (IF A[5] < B[5] THEN -1 ELSE 1)
    ELSE 0

\* Carry propagation over five columns t1..t5 (t5 the least significant,
\* columns possibly negative or above Base); the first limb keeps the carry.
MProp(t1, t2, t3, t4, t5) ==
    <<t1 + (t2 + (t3 + (t4 + t5 \div Base) \div Base) \div Base) \div Base,
      (t2 + (t3 + (t4 + t5 \div Base) \div Base) \div Base) % Base,
      (t3 + (t4 + t5 \div Base) \div Base) % Base,
      (t4 + t5 \div Base) % Base,
      t5 % Base>>

\* Sum; the first limb may reach 2*Base - 1.
MAdd(A, B) == MProp(A[1] + B[1], A[2] + B[2], A[3] + B[3], A[4] + B[4],
                    A[5] + B[5])

\* Difference A - B for A >= B.
MSub(A, B) == MProp(A[1] - B[1], A[2] - B[2], A[3] - B[3], A[4] - B[4],
                    A[5] - B[5])

\* Truncated product; the first limb may reach Base^2 - 1.
MMul(A, B) ==
    MProp(A[1]*B[1],
          A[1]*B[2] + A[2]*B[1],
          A[1]*B[3] + A[2]*B[2] + A[3]*B[1],
          A[1]*B[4] + A[2]*B[3] + A[3]*B[2] + A[4]*B[1],
          A[1]*B[5] + A[2]*B[4] + A[3]*B[3] + A[4]*B[2] + A[5]*B[1]
            + (A[2]*B[5] + A[3]*B[4] + A[4]*B[3] + A[5]*B[2]
               + (A[3]*B[5] + A[4]*B[4] + A[5]*B[3]
                  + (A[4]*B[5] + A[5]*B[4] + (A[5]*B[5]) \div Base)
                    \div Base) \div Base) \div Base)

\* Truncated product with a small natural number n (n < 200000); the first
\* limb may exceed Base.
MMulSmall(A, n) == MProp(A[1]*n, A[2]*n, A[3]*n, A[4]*n, A[5]*n)

\* Truncated quotient by a small positive number n (n < 200000): long
\* division, limb by limb, each remainder carried into the next limb.
MDivSmall(A, n) ==
    <<A[1] \div n,
      ((A[1] % n) * Base + A[2]) \div n,
      ((((A[1] % n) * Base + A[2]) % n) * Base + A[3]) \div n,
      ((((((A[1] % n) * Base + A[2]) % n) * Base + A[3]) % n) * Base + A[4])
          \div n,
      ((((((((A[1] % n) * Base + A[2]) % n) * Base + A[3]) % n) * Base
          + A[4]) % n) * Base + A[5]) \div n>>

\* The mantissa shifted right by n limbs (divided by Base^n, truncated).
MShr(A, n) ==
    CASE n = 0 -> A
      [] n = 1 -> <<0, A[1], A[2], A[3], A[4]>>
      [] n = 2 -> <<0, 0, A[1], A[2], A[3]>>
      [] n = 3 -> <<0, 0, 0, A[1], A[2]>>
      [] n = 4 -> <<0, 0, 0, 0, A[1]>>
      [] OTHER -> ZeroM

\* Number of leading zero limbs (5 for the zero mantissa).
MLead(A) ==
    IF A[1] # 0 THEN 0 ELSE IF A[2] # 0 THEN 1 ELSE IF A[3] # 0 THEN 2
    ELSE IF A[4] # 0 THEN 3 ELSE IF A[5] # 0 THEN 4 ELSE 5

\* The mantissa shifted left by n limbs (its n leading limbs are zero).
MShl(A, n) ==
    CASE n = 0 -> A
      [] n = 1 -> <<A[2], A[3], A[4], A[5], 0>>
      [] n = 2 -> <<A[3], A[4], A[5], 0, 0>>
      [] n = 3 -> <<A[4], A[5], 0, 0, 0>>
      [] n = 4 -> <<A[5], 0, 0, 0, 0>>
      [] OTHER -> ZeroM

\* ---------------------------------------------------------------------
\* Floating point numbers
\* ---------------------------------------------------------------------

Fin(s, e, A) == [k |-> "fin", sg |-> s, e |-> e, m |-> A]
RZero == [k |-> "zero", sg |-> 1, e |-> 0, m |-> ZeroM]
RNaN  == [k |-> "nan",  sg |-> 1, e |-> 0, m |-> ZeroM]
RInf(s) == [k |-> "inf", sg |-> s, e |-> 0, m |-> ZeroM]
ROne == Fin(1, 0, OneM)
RTwo == Fin(1, 0, <<2, 0, 0, 0, 0>>)
RThree == Fin(1, 0, <<3, 0, 0, 0, 0>>)

\* The number s * A * Base^e for a mantissa with z leading zero limbs.
RNormLead(s, e, A, z) ==
    IF z = 5 THEN [RZero EXCEPT !.sg = s] ELSE Fin(s, e - z, MShl(A, z))

\* The number s * A * Base^e for a mantissa whose first limb may be zero or
\* exceed Base (below Base^2): renormalised, truncated.
RNorm(s, e, A) ==
    IF A[1] >= Base
    THEN Fin(s, e + 1, <<A[1] \div Base, A[1] % Base, A[2], A[3], A[4]>>)
    ELSE RNormLead(s, e, A, MLead(A))

\* An integer n (|n| < Base^2) as a number.
RInt(n) ==
    IF n = 0 THEN RZero
    ELSE RNorm(IF n < 0 THEN -1 ELSE 1, 0,
               <<IF n < 0 THEN -n ELSE n, 0, 0, 0, 0>>)

\* 10^d for d = 0..4.
Pow10Small(d) ==
    CASE d = 0 -> 1 [] d = 1 -> 10 [] d = 2 -> 100 [] d = 3 -> 1000
      [] OTHER -> 10000

\* The decimal number n / 10^d for d in 0..4 (a literal such as 0.01 or 4.99).
RDec(n, d) ==
    IF n = 0 THEN RZero
    ELSE IF n < 0 THEN
        RNorm(-1, 0, <<(-n) \div Pow10Small(d),
                       ((-n) % Pow10Small(d)) * Pow10Small(4 - d), 0, 0, 0>>)
    ELSE RNorm(1, 0, <<n \div Pow10Small(d),
                       (n % Pow10Small(d)) * Pow10Small(4 - d), 0, 0, 0>>)

RNeg(x) == [x EXCEPT !.sg = -x.sg]

RAbs(x) == [x EXCEPT !.sg = 1]

\* Python's float multiplication.
RMul(x, y) ==
    IF x.k = "nan" \/ y.k = "nan" THEN RNaN
    ELSE IF x.k = "inf" \/ y.k = "inf"
         THEN (IF x.k = "zero" \/ y.k = "zero" THEN RNaN
               ELSE RInf(x.sg * y.sg))
    ELSE IF x.k = "zero" \/ y.k = "zero" THEN [RZero EXCEPT !.sg = x.sg * y.sg]
    ELSE RNorm(x.sg * y.sg, x.e + y.e, MMul(x.m, y.m))

\* Magnitude comparison of two finite non-zero numbers: -1, 0, 1.
RCmpMag(x, y) ==
    IF x.e # y.e THEN (IF x.e < y.e THEN -1 ELSE 1) ELSE MCmp(x.m, y.m)

\* big + sml for finite non-zero numbers with |big| >= |sml|.
RAddOrdered(big, sml) ==
    IF big.sg = sml.sg
    THEN RNorm(big.sg, big.e, MAdd(big.m, MShr(sml.m, big.e - sml.e)))
    ELSE RNorm(big.sg, big.e, MSub(big.m, MShr(sml.m, big.e - sml.e)))

\* Sum of two finite non-zero numbers.
RAddFin(x, y) ==
    IF RCmpMag(x, y) >= 0 THEN RAddOrdered(x, y) ELSE RAddOrdered(y, x)

\* A zero result of an addition is +0.
RPlusZero(r) == IF r.k = "zero" THEN RZero ELSE r

\* Python's float addition.
RAdd(x, y) ==
    IF x.k = "nan" \/ y.k = "nan" THEN RNaN
    ELSE IF x.k = "inf"
         THEN (IF y.k = "inf" /\ y.sg # x.sg THEN RNaN ELSE x)
    ELSE IF y.k = "inf" THEN y
    ELSE IF x.k = "zero" THEN y
    ELSE IF y.k = "zero" THEN x
    ELSE RPlusZero(RAddFin(x, y))

RSub(x, y) == RAdd(x, RNeg(y))

\* d < 0 for a number d that is not nan.
RNegative(d) == d.k \in {"fin", "inf"} /\ d.sg = -1

\* x < y for numbers that are not nan.
RLess(x, y) == RNegative(RSub(x, y))

\* ---------------------------------------------------------------------
\* Division and square root
\* ---------------------------------------------------------------------

\* Number of Newton iterations of the reciprocal and of the inverse square
\* root (the starting values are good to 4 and to 2 digits).
RecipIters == 3
RsqrtIters == 4

\* Newton's iteration y <- y * (2 - A*y) for the reciprocal of A.
RECURSIVE RecipNewton(_, _, _)
RecipNewton(A, y, n) ==
    IF n = 0 THEN y
    ELSE RecipNewton(A, RMul(y, RSub(RTwo, RMul(A, y))), n - 1)

\* Number of decimal digits, less one, of a first limb d in 1..Base-1.
Digits(d) == IF d < 10 THEN 0 ELSE IF d < 100 THEN 1 ELSE IF d < 1000 THEN 2
             ELSE 3

\* 1 / A from the five leading digits of A: p is the power of ten that
\* brings the first limb of A to four or five digits.
MRecipStart(A, p) ==
    RNorm(1, 0, MDivSmall(<<p, 0, 0, 0, 0>>,
                          A[1] * p + A[2] \div (Base \div p)))

\* 1 / A for a mantissa A with 1 <= A < Base, as a number.
MRecip(A) ==
    RecipNewton(Fin(1, 0, A), MRecipStart(A, Pow10Small(4 - Digits(A[1]))),
                RecipIters)

\* x * r, r being 1/|y| before the exponent and the sign of y are applied.
RMulRecip(x, y, r) == RMul(x, [r EXCEPT !.sg = y.sg, !.e = r.e - y.e])

\* Float division with IEEE results for a zero divisor (numpy).
RDiv(x, y) ==
    IF x.k = "nan" \/ y.k = "nan" THEN RNaN
    ELSE IF y.k = "zero"
         THEN (IF x.k = "zero" THEN RNaN ELSE RInf(x.sg * y.sg))
    ELSE IF y.k = "inf"
         THEN (IF x.k = "inf" THEN RNaN
               ELSE [RZero EXCEPT !.sg = x.sg * y.sg])
    ELSE IF x.k = "inf" THEN RInf(x.sg * y.sg)
    ELSE IF x.k = "zero" THEN [RZero EXCEPT !.sg = x.sg * y.sg]
    ELSE RMulRecip(x, y, MRecip(y.m))

\* Largest s with s*s <= n, searched in lo..hi (lo*lo <= n < (hi+1)^2).
RECURSIVE ISqrt(_, _, _)
ISqrt(n, lo, hi) ==
    IF lo >= hi THEN lo
    ELSE IF ((lo + hi + 1) \div 2) * ((lo + hi + 1) \div 2) <= n
         THEN ISqrt(n, (lo + hi + 1) \div 2, hi)
         ELSE ISqrt(n, lo, (lo + hi + 1) \div 2 - 1)

\* Half of a finite number.
RHalf(t) == RNorm(t.sg, t.e, MDivSmall(t.m, 2))

\* Newton's iteration y <- y * (3 - A*y*y) / 2 for the inverse square root.
RECURSIVE RsqrtNewton(_, _, _)
RsqrtNewton(A, y, n) ==
    IF n = 0 THEN y
    ELSE RsqrtNewton(A,
                     RMul(y, RHalf(RSub(RThree, RMul(A, RMul(y, y))))),
                     n - 1)

\* 1 / sqrt(A) from the leading digits of A.
MRsqrtStart(A) ==
    IF A[1] < 100
    THEN RNorm(1, 0, MDivSmall(<<100, 0, 0, 0, 0>>,
                               ISqrt(A[1] * 10000 + A[2], 100, 999)))
    ELSE RNorm(1, 0, MDivSmall(<<10, 0, 0, 0, 0>>,
                               ISqrt(A[1] * 100 + A[2] \div 100, 100, 999)))

\* The square root of a mantissa A with 1 <= A < Base, as a number.
MSqrt(A) ==
    RMul(Fin(1, 0, A), RsqrtNewton(Fin(1, 0, A), MRsqrtStart(A), RsqrtIters))

\* r * Base^h.
RScaleExp(r, h) == [r EXCEPT !.e = r.e + h]

\* sqrt(x) for finite x > 0, r being the square root of the mantissa of x.
RSqrtExp(x, r) ==
    IF x.e % 2 = 0 THEN RScaleExp(r, x.e \div 2)
    ELSE RScaleExp(RNorm(1, r.e, MMulSmall(r.m, 100)), (x.e - 1) \div 2)

\* numpy.sqrt (nan for a negative argument).
RSqrt(x) ==
    IF x.k = "nan" THEN RNaN
    ELSE IF x.k = "zero" THEN x
    ELSE IF x.sg = -1 THEN RNaN
    ELSE IF x.k = "inf" THEN x
    ELSE RSqrtExp(x, MSqrt(x.m))

\* numpy.square.
RSquare(x) == RMul(x, x)

\* ---------------------------------------------------------------------
\* Cosine, sine, powers of ten and the decimal logarithm
\* ---------------------------------------------------------------------

PiM        == <<3, 1415, 9265, 3589, 7932>>
TwoPiM     == <<6, 2831, 8530, 7179, 5864>>
HalfPiM    == <<1, 5707, 9632, 6794, 8966>>
QuarterPiM == <<0, 7853, 9816, 3397, 4483>>
ThreeHalfPiM == <<4, 7123, 8898, 384, 6898>>
InvTwoPiM  == <<0, 1591, 5494, 3091, 8953>>
\* log10(e)
Log10eM    == <<0, 4342, 9448, 1903, 2518>>

RPi == Fin(1, 0, PiM)

\* Number of terms of the sine and cosine series on [0, pi/4] and of the
\* atanh series of the logarithm.
TrigTerms == 10
LogTerms == 8

\* Horner evaluation of 1 - X2/(j(j+1)) * (1 - X2/((j+2)(j+3)) * (...)),
\* on fixed-point mantissas below 1, with n nested factors left.
RECURSIVE TrigHorner(_, _, _)
TrigHorner(X2, j, n) ==
    IF n = 0 THEN OneM
    ELSE MSub(OneM, MDivSmall(MMul(X2, TrigHorner(X2, j + 2, n - 1)),
                              j * (j + 1)))

\* Cosine and sine series of a fixed-point angle T in [0, pi/4], X2 = T*T.
OctantSeries(T, X2) ==
    [c |-> TrigHorner(X2, 1, TrigTerms),
     s |-> MMul(T, TrigHorner(X2, 2, TrigTerms))]

\* Cosine and sine of a fixed-point angle T in [0, pi/4].
OctantCosSin(T) == OctantSeries(T, MMul(T, T))

\* Cosine and sine exchanged (the angle reflected at pi/4).
SwapCosSin(r) == [c |-> r.s, s |-> r.c]

\* Cosine and sine of a fixed-point angle T in [0, pi/2].
QuadrantCosSin(T) ==
    IF MCmp(T, QuarterPiM) <= 0 THEN OctantCosSin(T)
    ELSE SwapCosSin(OctantCosSin(MSub(HalfPiM, T)))

\* The sixth limb of 2*pi, used when a multiple of 2*pi is subtracted.
TwoPiTail == 7692

\* n * 2pi, with the contribution of the sixth limb of 2*pi.
MulTwoPi(n) ==
    MAdd(MMulSmall(TwoPiM, n), <<0, 0, 0, 0, (n * TwoPiTail) \div Base>>)

\* r = T - n*2pi brought below 2pi.
BelowTwoPi(r) == IF MCmp(r, TwoPiM) >= 0 THEN MSub(r, TwoPiM) ELSE r

\* T - n*2pi brought into [0, 2pi) when the estimate n is off by one;
\* s is n * 2pi.
ReduceBy(T, n, s) ==
    IF MCmp(T, s) < 0 THEN MSub(T, MulTwoPi(n - 1))
    ELSE BelowTwoPi(MSub(T, s))

ReduceTwoPi(T, n) == ReduceBy(T, n, MulTwoPi(n))

\* Signed cosine and sine [c, cs, s, ss] in quadrant q from the values v of
\* the angle reduced to the first quadrant.
QuadrantSigns(q, v) ==
    CASE q = 0 -> [c |-> v.c, cs |-> 1,  s |-> v.s, ss |-> 1]
      [] q = 1 -> [c |-> v.s, cs |-> -1, s |-> v.c, ss |-> 1]
      [] q = 2 -> [c |-> v.c, cs |-> -1, s |-> v.s, ss |-> -1]
      [] OTHER -> [c |-> v.s, cs |-> 1,  s |-> v.c, ss |-> -1]

\* Cosine and sine of a fixed-point angle r in [0, 2pi).
CircleCosSin(r) ==
    IF MCmp(r, HalfPiM) < 0 THEN QuadrantSigns(0, QuadrantCosSin(r))
    ELSE IF MCmp(r, PiM) < 0
         THEN QuadrantSigns(1, QuadrantCosSin(MSub(r, HalfPiM)))
    ELSE IF MCmp(r, ThreeHalfPiM) < 0
         THEN QuadrantSigns(2, QuadrantCosSin(MSub(r, PiM)))
    ELSE QuadrantSigns(3, QuadrantCosSin(MSub(r, ThreeHalfPiM)))

\* Cosine and sine, as signed fixed-point values [c, cs, s, ss], of a
\* fixed-point angle T in [0, Base).
FixedCosSin(T) == CircleCosSin(ReduceTwoPi(T, MMul(T, InvTwoPiM)[1]))

\* cos - j*sin of an angle of sign sg from its signed fixed-point values.
\* A complex number is a record [re, im] of two numbers.
ExpFromFixed(sg, v) ==
    [re |-> RNorm(v.cs, 0, v.c), im |-> RNorm(-(sg * v.ss), 0, v.s)]

\* numpy.exp(-1j * t) for a real t, |t| < Base: cos(t) - j*sin(t).
RExpMinusJ(t) ==
    IF t.k \in {"nan", "inf"} THEN [re |-> RNaN, im |-> RNaN]
    ELSE IF t.k = "zero" THEN [re |-> ROne, im |-> RZero]
    ELSE ExpFromFixed(t.sg, FixedCosSin(MShr(t.m, -t.e)))

\* 10^(r/20) for r = 0..19.
Pow10Table(r) ==
    CASE r = 0 -> <<1, 0, 0, 0, 0>>
      [] r = 1 -> <<1, 1220, 1845, 4301, 9634>>
      [] r = 2 -> <<1, 2589, 2541, 1794, 1672>>
      [] r = 3 -> <<1, 4125, 3754, 4622, 7543>>
      [] r = 4 -> <<1, 5848, 9319, 2461, 1134>>
      [] r = 5 -> <<1, 7782, 7941, 38, 9228>>
      [] r = 6 -> <<1, 9952, 6231, 4968, 8796>>
      [] r = 7 -> <<2, 2387, 2113, 8568, 3396>>
      [] r = 8 -> <<2, 5118, 8643, 1509, 5801>>
      [] r = 9 -> <<2, 8183, 8293, 1264, 4538>>
      [] r = 10 -> <<3, 1622, 7766, 168, 3793>>
      [] r = 11 -> <<3, 5481, 3389, 2335, 7545>>
      [] r = 12 -> <<3, 9810, 7170, 5534, 9725>>
      [] r = 13 -> <<4, 4668, 3592, 1509, 6311>>
      [] r = 14 -> <<5, 118, 7233, 6272, 7228>>
      [] r = 15 -> <<5, 6234, 1325, 1903, 4908>>
      [] r = 16 -> <<6, 3095, 7344, 4801, 9324>>
      [] r = 17 -> <<7, 794, 5784, 3841, 3791>>
      [] r = 18 -> <<7, 9432, 8234, 7242, 8150>>
      [] OTHER -> <<8, 9125, 938, 1337, 4552>>

\* Python's 10**(n / 20) for an integer n.
RPow10Twentieth(n) ==
    RNorm(1, (n \div 20) \div 4,
          MMulSmall(Pow10Table(n % 20), Pow10Small((n \div 20) % 4)))

\* Largest r in lo..19 with 10^(r/20) <= A, for a mantissa A in [1, 10).
RECURSIVE TableIndex(_, _)
TableIndex(A, r) ==
    IF r = 19 \/ MCmp(A, Pow10Table(r + 1)) < 0 THEN r
    ELSE TableIndex(A, r + 1)

\* The series z * (1 + Z2/3 + Z2^2/5 + ...) = atanh(z) in Horner form: the
\* bracket from the term of denominator j on, n terms left.
RECURSIVE AtanhHorner(_, _, _)
AtanhHorner(Z2, j, n) ==
    IF n = 0 THEN ZeroM
    ELSE MAdd(MDivSmall(OneM, j), MMul(Z2, AtanhHorner(Z2, j + 2, n - 1)))

\* A number z in [0, 1) as a fixed-point mantissa.
FixedOf(z) == IF z.k = "zero" THEN ZeroM ELSE MShr(z.m, -z.e)

\* atanh(z) for the fixed-point value zf of z.
AtanhSeries(z, zf) ==
    RMul(z, RNorm(1, 0, AtanhHorner(MMul(zf, zf), 1, LogTerms)))

\* 2 * atanh(z) * log10(e).
Log10FromRatio(z) ==
    RMul(RMul(RTwo, AtanhSeries(z, FixedOf(z))), RNorm(1, 0, Log10eM))

\* log10 of a number u in [1, 10^(1/20)]: 2 * atanh((u-1)/(u+1)) * log10(e).
Log10Near1(u) == Log10FromRatio(RDiv(RSub(u, ROne), RAdd(u, ROne)))

\* log10 of Base^e * 10^d * 10^(r/20) * (A / 10^(r/20)), A in [1, 10).
Log10Table(e, d, A, r) ==
    RAdd(RDiv(RInt((4 * e + d) * 20 + r), RInt(20)),
         Log10Near1(RDiv(RNorm(1, 0, A), RNorm(1, 0, Pow10Table(r)))))

\* log10 of the finite positive number Base^e * 10^d * A, A in [1, 10).
Log10Scaled(e, d, A) == Log10Table(e, d, A, TableIndex(A, 0))

\* numpy.log10 (-inf at zero, nan below zero).
RLog10(x) ==
    IF x.k = "nan" THEN RNaN
    ELSE IF x.k = "zero" THEN RInf(-1)
    ELSE IF x.sg = -1 THEN RNaN
    ELSE IF x.k = "inf" THEN x
    ELSE Log10Scaled(x.e, Digits(x.m[1]),
                     MDivSmall(x.m, Pow10Small(Digits(x.m[1]))))

\* ---------------------------------------------------------------------
\* The field-intensity calculator
\* ---------------------------------------------------------------------

\* The module-level names rho0 and c of the notebook (rho0 = 1, c = 1500),
\* read by the calculator each time it runs.
VARIABLES rho0, c

globals == <<rho0, c>>

\* Number of range samples and the end points of the range axis, in
\* hundredths of a metre.
NumSamples == 200
RangeStartCm == 1
RangeStopCm == 500

\* The radius argument is carried in hundredths of a metre (the slider step),
\* the frequency in kHz and the source level in dB, all three as integers.
Radius(aCm) == RDec(aCm, 2)

\* omega = 2 * np.pi * f * 1000
Omega(f) == RMul(RMul(RMul(RInt(2), RPi), RInt(f)), RInt(1000))

\* k = omega / c
WaveNumber(omega) == RDiv(omega, RInt(c))

\* Slip: the source level is converted as a power level, 10**(SL / 10).
SLLin_PerTen(SL) == RPow10Twentieth(2 * SL)

\* SL_lin = 10**(SL / 20)
SLLin(SL) == RPow10Twentieth(SL)

\* Slip: the wavenumber is left out of the divisor.
U0Divisor_NoWaveNumber(k, a) ==
    RDiv(RMul(RMul(RInt(rho0 * c), a), a), RInt(2))

\* The divisor rho0 * c * k * a * a / 2 of the statement that computes U0.
U0Divisor(k, a) ==
    RDiv(RMul(RMul(RMul(RInt(rho0 * c), k), a), a), RInt(2))

\* U0 = SL_lin / (rho0 * c * k * a * a / 2)
ParticleVelocity(SL_lin, k, a) == RDiv(SL_lin, U0Divisor(k, a))


\* np.linspace(start, stop, num)[i] for i in 0..num-1: i * step + start with
\* step = (stop - start) / (num - 1), the last sample being stop itself.
LinspaceOf(start, stop, num, step) ==
    [i \in 1..num |->
        IF i = num THEN stop ELSE RAdd(RMul(RInt(i - 1), step), start)]

Linspace(start, stop, num) ==
    LinspaceOf(start, stop, num, RDiv(RSub(stop, start), RInt(num - 1)))

\* x_axis = np.linspace(0.01, 5, 200)
XAxis == Linspace(RDec(RangeStartCm, 2), RDec(RangeStopCm, 2), NumSamples)

\* Slip: the factor 0.5 is left out of the far-field pressure.
PFar_NoHalf(U0, k, a, x) ==
    RDiv(RMul(RMul(RMul(RMul(RInt(c), U0), k), a), a), x)

\* Slip: the far-field pressure is multiplied by the range.
PFar_TimesRange(U0, k, a, x) ==
    RMul(RMul(RMul(RMul(RMul(RMul(RDec(5, 1), RInt(c)), U0), k), a), a), x)

\* Slip: the factor 0.5 of the far-field pressure is written 0.25.
PFar_Quarter(U0, k, a, x) ==
    RDiv(RMul(RMul(RMul(RMul(RMul(RDec(25, 2), RInt(c)), U0), k), a), a), x)

\* One element of P_far_axis = 0.5 * c * U0 * k * a * a / x_axis
PFar(U0, k, a, x) ==
    RDiv(RMul(RMul(RMul(RMul(RMul(RDec(5, 1), RInt(c)), U0), k), a), a), x)

\* One element of I_far_axis = 10 * np.log10(np.square(P_far_axis))
IFar(P_far) == RMul(RInt(10), RLog10(RSquare(P_far)))

\* A real number times a complex number.
CScale(r, z) == [re |-> RMul(r, z.re), im |-> RMul(r, z.im)]

CAdd(z, w) == [re |-> RAdd(z.re, w.re), im |-> RAdd(z.im, w.im)]

CSub(z, w) == [re |-> RSub(z.re, w.re), im |-> RSub(z.im, w.im)]

\* np.abs of a complex number.
CAbs(z) == RSqrt(RAdd(RSquare(z.re), RSquare(z.im)))

\* Slip: the two waves are added instead of subtracted.
PFull_SumOfWaves(U0, k, a, x) ==
    CScale(RMul(RInt(rho0 * c), U0),
           CAdd(RExpMinusJ(RMul(k, x)),
                RExpMinusJ(RMul(k, RSqrt(RAdd(RSquare(x), RSquare(a)))))))

\* Slip: the second wave is taken at the range x instead of the distance
\* to the rim of the piston.
PFull_SameWave(U0, k, a, x) ==
    CScale(RMul(RInt(rho0 * c), U0),
           CSub(RExpMinusJ(RMul(k, x)), RExpMinusJ(RMul(k, x))))

\* One element of P_full_axis = rho0 * c * U0 * (np.exp(-1j * k * x_axis)
\*     - np.exp(-1j * k * np.sqrt(np.square(x_axis) + np.square(a))))
PFull(U0, k, a, x) ==
    CScale(RMul(RInt(rho0 * c), U0),
           CSub(RExpMinusJ(RMul(k, x)),
                RExpMinusJ(RMul(k, RSqrt(RAdd(RSquare(x), RSquare(a)))))))

\* Slip: the magnitude is not squared.
IFull_NoSquare(P_full) == RMul(RInt(10), RLog10(CAbs(P_full)))

\* One element of I_full_axis = 10 * np.log10(np.abs(P_full_axis)**2)
IFull(P_full) == RMul(RInt(10), RLog10(RSquare(CAbs(P_full))))

\* The array statements of the calculator, element by element over the
\* range axis (numpy broadcasting).
PFarAxis(U0, k, a, xs) == [i \in DOMAIN xs |-> PFar(U0, k, a, xs[i])]

\* Slip: the last sample is dropped.
IFarAxis_DropLast(P_far) ==
    [i \in 1..(Len(P_far) - 1) |-> IFar(P_far[i])]

IFarAxis(P_far) == [i \in DOMAIN P_far |-> IFar(P_far[i])]

PFullAxis(U0, k, a, xs) == [i \in DOMAIN xs |-> PFull(U0, k, a, xs[i])]

IFullAxis(P_full) == [i \in DOMAIN P_full |-> IFull(P_full[i])]

\* ---------------------------------------------------------------------
\* The sliders
\* ---------------------------------------------------------------------

\* f_slider = widgets.IntSlider(min=1, max=200, step=1, value=12)
FMin == 1
FMax == 200
FInitial == 12

\* a_slider = widgets.FloatSlider(min=0.01, max=1, step=0.01, value=0.5),
\* in slider steps (hundredths of a metre).
AMin == 1
AMax == 100
AInitial == 50

\* SL_slider = widgets.IntSlider(min=100, max=220, step=1, value=180)
SLMin == 100
SLMax == 220
SLInitial == 180

\* Slip: the slider has no lower end.
Clamp_NoMin(v, lo, hi) == IF v > hi THEN hi ELSE v

\* A bounded slider keeps an assigned value within its ends.
Clamp(v, lo, hi) == IF v < lo THEN lo ELSE IF v > hi THEN hi ELSE v

\* ---------------------------------------------------------------------
\* State
\* ---------------------------------------------------------------------

\* A local that has not been assigned yet.
None == [k |-> "none", sg |-> 1, e |-> 0, m |-> ZeroM]

VARIABLES
    f_slider, a_slider, SL_slider,   \* slider values (kHz, cm, dB)
    figures,         \* pyplot's open figures: number -> lines drawn
    changes,         \* slider value changes so far
    calls,           \* calculator calls made by the display callback
    f, a, SL,        \* arguments of the running call (kHz, cm, dB)
    pc,              \* statement the kernel is at
    omega, k, SL_lin, U0,
    x_axis, P_far_axis, I_far_axis, P_full_axis, I_full_axis,
    result,          \* the returned tuple, <<>> before the return
    returned         \* results kept by a caller: arguments -> returned tuple

sliders == <<f_slider, a_slider, SL_slider>>
ui == <<sliders, figures, changes, calls>>
locals == <<omega, k, SL_lin, U0, x_axis, P_far_axis, I_far_axis,
            P_full_axis, I_full_axis>>
vars == <<globals, returned, ui, f, a, SL, pc, locals, result>>

\* ---------------------------------------------------------------------
\* Arguments of the direct calls
\* ---------------------------------------------------------------------

\* How many of the listed frequencies, radii and source levels are drawn.
NumFreq == 2
NumRadius == 2
NumLevel == 2

FreqChoices == <<12, 1, 200, 50>>
RadiusChoices == <<50, 10, 1, 100>>
LevelChoices == <<180, 100, 220, 140>>

FreqSet == {FreqChoices[i] : i \in 1..NumFreq}
RadiusSet == {RadiusChoices[i] : i \in 1..NumRadius}
LevelSet == {LevelChoices[i] : i \in 1..NumLevel}

\* Slider-valid argument triples.
ValidArgs == FreqSet \X RadiusSet \X LevelSet

\* Calls outside the slider bounds: a zero or negative frequency or radius.
InvalidArgs ==
    {<<0, 50, 180>>, <<12, 0, 180>>, <<0, 0, 100>>,
     <<-12, 50, 180>>, <<12, -50, 180>>}

\* ---------------------------------------------------------------------
\* far_and_full_field_intensity_on_axis, statement by statement
\* ---------------------------------------------------------------------

\* The constants and the sliders as the cell sets them, no figure open,
\* no result kept.
InitWidgets ==
    /\ rho0 = 1
    /\ c = 1500
    /\ returned = <<>>
    /\ f_slider = FInitial
    /\ a_slider = AInitial
    /\ SL_slider = SLInitial
    /\ figures = <<>>
    /\ changes = 0
    /\ calls = 0

\* No local of the calculator is assigned.
InitLocals ==
    /\ omega = None /\ k = None /\ SL_lin = None /\ U0 = None
    /\ x_axis = <<>> /\ P_far_axis = <<>> /\ I_far_axis = <<>>
    /\ P_full_axis = <<>> /\ I_full_axis = <<>>
    /\ result = <<>>

\* A direct call of the calculator is entered.
Init ==
    /\ InitWidgets
    /\ \E t \in ValidArgs \cup InvalidArgs :
          /\ f = t[1]
          /\ a = t[2]
          /\ SL = t[3]
    /\ pc = "omega"
    /\ InitLocals

StmtOmega ==
    /\ pc = "omega"
    /\ omega' = Omega(f)
    /\ pc' = "k"
    /\ UNCHANGED <<globals, returned,
                   ui, f, a, SL, k, SL_lin, U0, x_axis, P_far_axis,
                   I_far_axis, P_full_axis, I_full_axis, result>>

\* Slip: the wavenumber statement rebinds the module constant c.
StmtK_RebindsC ==
    /\ pc = "k"
    /\ k' = WaveNumber(omega)
    /\ c' = c + 1
    /\ pc' = "SL_lin"
    /\ UNCHANGED <<rho0, returned, ui, f, a, SL, omega, SL_lin, U0, x_axis,
                   P_far_axis, I_far_axis, P_full_axis, I_full_axis, result>>

StmtK ==
    /\ pc = "k"
    /\ k' = WaveNumber(omega)
    /\ pc' = "SL_lin"
    /\ UNCHANGED <<globals, returned,
                   ui, f, a, SL, omega, SL_lin, U0, x_axis, P_far_axis,
                   I_far_axis, P_full_axis, I_full_axis, result>>

StmtSLLin ==
    /\ pc = "SL_lin"
    /\ SL_lin' = SLLin(SL)
    /\ pc' = "U0"
    /\ UNCHANGED <<globals, returned,
                   ui, f, a, SL, omega, k, U0, x_axis, P_far_axis,
                   I_far_axis, P_full_axis, I_full_axis, result>>

\* Slip: the division follows numpy (inf on a zero divisor, no exception).
StmtU0_NoRaise ==
    /\ pc = "U0"
    /\ pc' = "x_axis"
    /\ U0' = ParticleVelocity(SL_lin, k, Radius(a))
    /\ UNCHANGED <<globals, returned,
                   ui, f, a, SL, omega, k, SL_lin, x_axis, P_far_axis,
                   I_far_axis, P_full_axis, I_full_axis, result>>

\* Python's float division raises ZeroDivisionError on a zero divisor; the
\* exception leaves the function without a return value.
StmtU0 ==
    /\ pc = "U0"
    /\ IF U0Divisor(k, Radius(a)).k = "zero"
       THEN pc' = "ZeroDivisionError" /\ U0' = U0
       ELSE pc' = "x_axis" /\ U0' = ParticleVelocity(SL_lin, k, Radius(a))
    /\ UNCHANGED <<globals, returned,
                   ui, f, a, SL, omega, k, SL_lin, x_axis, P_far_axis,
                   I_far_axis, P_full_axis, I_full_axis, result>>

\* Slip: the range axis starts at the radius instead of 0.01.
StmtXAxis_FromRadius ==
    /\ pc = "x_axis"
    /\ x_axis' = Linspace(Radius(a), RDec(RangeStopCm, 2), NumSamples)
    /\ pc' = "P_far"
    /\ UNCHANGED <<globals, returned,
                   ui, f, a, SL, omega, k, SL_lin, U0, P_far_axis,
                   I_far_axis, P_full_axis, I_full_axis, result>>

StmtXAxis ==
    /\ pc = "x_axis"
    /\ x_axis' = XAxis
    /\ pc' = "P_far"
    /\ UNCHANGED <<globals, returned,
                   ui, f, a, SL, omega, k, SL_lin, U0, P_far_axis,
                   I_far_axis, P_full_axis, I_full_axis, result>>

StmtPFar ==
    /\ pc = "P_far"
    /\ P_far_axis' = PFarAxis(U0, k, Radius(a), x_axis)
    /\ pc' = "I_far"
    /\ UNCHANGED <<globals, returned,
                   ui, f, a, SL, omega, k, SL_lin, U0, x_axis, I_far_axis,
                   P_full_axis, I_full_axis, result>>

StmtIFar ==
    /\ pc = "I_far"
    /\ I_far_axis' = IFarAxis(P_far_axis)
    /\ pc' = "P_full"
    /\ UNCHANGED <<globals, returned,
                   ui, f, a, SL, omega, k, SL_lin, U0, x_axis, P_far_axis,
                   P_full_axis, I_full_axis, result>>

StmtPFull ==
    /\ pc = "P_full"
    /\ P_full_axis' = PFullAxis(U0, k, Radius(a), x_axis)
    /\ pc' = "I_full"
    /\ UNCHANGED <<globals, returned,
                   ui, f, a, SL, omega, k, SL_lin, U0, x_axis, P_far_axis,
                   I_far_axis, I_full_axis, result>>

\* Slip: the full-field intensity is computed from the far-field pressure.
StmtIFull_FromFar ==
    /\ pc = "I_full"
    /\ I_full_axis' = IFarAxis(P_far_axis)
    /\ pc' = "return"
    /\ UNCHANGED <<globals, returned,
                   ui, f, a, SL, omega, k, SL_lin, U0, x_axis, P_far_axis,
                   I_far_axis, P_full_axis, result>>

StmtIFull ==
    /\ pc = "I_full"
    /\ I_full_axis' = IFullAxis(P_full_axis)
    /\ pc' = "return"
    /\ UNCHANGED <<globals, returned,
                   ui, f, a, SL, omega, k, SL_lin, U0, x_axis, P_far_axis,
                   I_far_axis, P_full_axis, result>>

StmtReturn ==
    /\ pc = "return"
    /\ result' = <<x_axis, I_far_axis, I_full_axis>>
    /\ pc' = "done"
    /\ UNCHANGED <<globals, returned,
                   ui, f, a, SL, locals>>

\* The statements of the calculator.
Calculator ==
    \/ StmtOmega
    \/ StmtK
    \/ StmtSLLin
    \/ StmtU0
    \/ StmtXAxis
    \/ StmtPFar
    \/ StmtIFar
    \/ StmtPFull
    \/ StmtIFull
    \/ StmtReturn

Next == Calculator

Spec == Init /\ [][Next]_vars

\* ---------------------------------------------------------------------
\* Repeated direct calls
\* ---------------------------------------------------------------------

\* How many of the listed argument triples a caller uses.
NumRepeat == 3

RepeatChoices ==
    << <<12, 50, 180>>, <<12, 50, 140>>, <<1, 50, 180>>, <<200, 1, 140>> >>

RepeatArgs == {RepeatChoices[i] : i \in 1..NumRepeat}

\* A first direct call is entered.
InitCalls ==
    /\ InitWidgets
    /\ \E t \in RepeatArgs :
          /\ f = t[1]
          /\ a = t[2]
          /\ SL = t[3]
    /\ pc = "omega"
    /\ InitLocals

\* The caller keeps the tuple the finished call returned (the first one for
\* each argument triple) and calls the calculator again, in a fresh frame.
CallAgain(t) ==
    /\ pc = "done"
    /\ returned' = IF <<f, a, SL>> \in DOMAIN returned THEN returned
                   ELSE returned @@ (<<f, a, SL>> :> result)
    /\ f' = t[1]
    /\ a' = t[2]
    /\ SL' = t[3]
    /\ pc' = "omega"
    /\ omega' = None /\ k' = None /\ SL_lin' = None /\ U0' = None
    /\ x_axis' = <<>> /\ P_far_axis' = <<>> /\ I_far_axis' = <<>>
    /\ P_full_axis' = <<>> /\ I_full_axis' = <<>>
    /\ result' = <<>>
    /\ UNCHANGED <<globals, ui>>

NextCalls ==
    \/ Calculator
    \/ \E t \in RepeatArgs : CallAgain(t)

SpecCalls == InitCalls /\ [][NextCalls]_vars

\* ---------------------------------------------------------------------
\* update_far_and_full_field_intensity_on_axis and the slider events
\* ---------------------------------------------------------------------

\* Most slider value changes in one session.
MaxChanges == 2

\* Positions the user asks of the sliders, some beyond the ends.
FreqRequests == {0, 201}
RadiusRequests == {0}
LevelRequests == {140}

\* The cell has run up to the call of interact: the sliders exist, the
\* calculator has not been called.
InitUI ==
    /\ InitWidgets
    /\ f = 0 /\ a = 0 /\ SL = 0
    /\ pc = "interact"
    /\ InitLocals

\* interact(update_far_and_full_field_intensity_on_axis, f=f_slider,
\* a=a_slider, SL=SL_slider) observes the three sliders and runs the
\* callback once for their initial values.
Interact ==
    /\ pc = "interact"
    /\ pc' = "update"
    /\ UNCHANGED <<globals, returned,
                   ui, f, a, SL, locals, result>>

\* The user moves a slider while the kernel is idle: the slider takes the
\* requested value brought within its ends, and a changed value runs the
\* callback.
SetF(v) ==
    /\ pc = "idle"
    /\ changes < MaxChanges
    /\ Clamp(v, FMin, FMax) # f_slider
    /\ f_slider' = Clamp(v, FMin, FMax)
    /\ changes' = changes + 1
    /\ pc' = "update"
    /\ UNCHANGED <<globals, returned,
                   a_slider, SL_slider, figures, calls, f, a, SL, locals,
                   result>>

SetA(v) ==
    /\ pc = "idle"
    /\ changes < MaxChanges
    /\ Clamp(v, AMin, AMax) # a_slider
    /\ a_slider' = Clamp(v, AMin, AMax)
    /\ changes' = changes + 1
    /\ pc' = "update"
    /\ UNCHANGED <<globals, returned,
                   f_slider, SL_slider, figures, calls, f, a, SL, locals,
                   result>>

\* Slip: a change of the source level slider does not run the callback.
SetSL_NoCallback(v) ==
    /\ pc = "idle"
    /\ changes < MaxChanges
    /\ Clamp(v, SLMin, SLMax) # SL_slider
    /\ SL_slider' = Clamp(v, SLMin, SLMax)
    /\ changes' = changes + 1
    /\ UNCHANGED <<globals, returned,
                   f_slider, a_slider, figures, calls, f, a, SL, pc, locals,
                   result>>

SetSL(v) ==
    /\ pc = "idle"
    /\ changes < MaxChanges
    /\ Clamp(v, SLMin, SLMax) # SL_slider
    /\ SL_slider' = Clamp(v, SLMin, SLMax)
    /\ changes' = changes + 1
    /\ pc' = "update"
    /\ UNCHANGED <<globals, returned,
                   f_slider, a_slider, figures, calls, f, a, SL, locals,
                   result>>

\* The callback is entered with the current slider values and calls the
\* calculator with them.
UpdateCall ==
    /\ pc = "update"
    /\ f' = f_slider
    /\ a' = a_slider
    /\ SL' = SL_slider
    /\ calls' = calls + 1
    /\ pc' = "omega"
    /\ omega' = None /\ k' = None /\ SL_lin' = None /\ U0' = None
    /\ x_axis' = <<>> /\ P_far_axis' = <<>> /\ I_far_axis' = <<>>
    /\ P_full_axis' = <<>> /\ I_full_axis' = <<>>
    /\ result' = <<>>
    /\ UNCHANGED <<globals, returned,
                   sliders, figures, changes>>

\* Slip: the figures of the previous rendering are left open.
UpdateClose_KeepFigures ==
    /\ pc = "done"
    /\ pc' = "figure"
    /\ UNCHANGED <<globals, returned,
                   ui, f, a, SL, locals, result>>

\* x_axis, I_far_axis, I_full_axis = <the returned tuple>; plt.close('all')
UpdateClose ==
    /\ pc = "done"
    /\ figures' = <<>>
    /\ pc' = "figure"
    /\ UNCHANGED <<globals, returned,
                   sliders, changes, calls, f, a, SL, locals, result>>

\* plt.figure(1): figure 1 is opened unless it is open already.
UpdateFigure ==
    /\ pc = "figure"
    /\ figures' = IF 1 \in DOMAIN figures THEN figures ELSE (1 :> <<>>)
    /\ pc' = "plot_far"
    /\ UNCHANGED <<globals, returned,
                   sliders, changes, calls, f, a, SL, locals, result>>

\* A curve added to figure 1 by plt.plot(x, y, color=...).
Plot(figs, x, y, color) ==
    [figs EXCEPT ![1] = Append(@, [x |-> x, y |-> y, color |-> color])]

\* plt.plot(x_axis, I_far_axis, ..., color="b")
UpdatePlotFar ==
    /\ pc = "plot_far"
    /\ figures' = Plot(figures, result[1], result[2], "b")
    /\ pc' = "plot_full"
    /\ UNCHANGED <<globals, returned,
                   sliders, changes, calls, f, a, SL, locals, result>>

\* plt.plot(x_axis, I_full_axis, ..., color="r"); the labels and the grid
\* that follow add no curve, and plt.show is not called.
UpdatePlotFull ==
    /\ pc = "plot_full"
    /\ figures' = Plot(figures, result[1], result[3], "r")
    /\ pc' = "idle"
    /\ UNCHANGED <<globals, returned,
                   sliders, changes, calls, f, a, SL, locals, result>>

\* The statements of the callback.
Update ==
    \/ UpdateCall
    \/ UpdateClose
    \/ UpdateFigure
    \/ UpdatePlotFar
    \/ UpdatePlotFull

\* The slider events.
SliderEvent ==
    \/ \E v \in FreqRequests : SetF(v)
    \/ \E v \in RadiusRequests : SetA(v)
    \/ \E v \in LevelRequests : SetSL(v)

NextUI ==
    \/ Interact
    \/ SliderEvent
    \/ Update
    \/ Calculator

SpecUI == InitUI /\ [][NextUI]_vars

\* ---------------------------------------------------------------------
\* Properties of the calculator
\* ---------------------------------------------------------------------

\* 10^-8, the tolerance of the comparisons "within numerical tolerance".
Tolerance == [k |-> "fin", sg |-> 1, e |-> -2, m |-> OneM]

\* |d| < tol for a finite d.
RSmall(d, tol) == d.k = "zero" \/ (d.k = "fin" /\ RLess(RAbs(d), tol))

\* |x - y| < tol for finite x and y.
RWithin(x, y, tol) == RSmall(RSub(x, y), tol)

\* |d| > tol for a finite d.
RLarge(d, tol) == d.k = "fin" /\ RLess(tol, RAbs(d))

\* |x - y| > tol for finite x and y.
RApart(x, y, tol) == RLarge(RSub(x, y), tol)

\* Statements after the assignment of U0.
AfterU0 == {"x_axis", "P_far", "I_far", "P_full", "I_full", "return", "done"}

\* The call has returned for slider-valid arguments.
ReturnedValid == pc = "done" /\ <<f, a, SL>> \in ValidArgs

\* The far-field expression of the running call, evaluated at 1 m.
FarFieldAtOneMetre == IFar(PFar(U0, k, Radius(a), ROne))

\* C1: for valid arguments the far-field expression evaluated at a range of
\* exactly 1 m equals the source level SL, within numerical tolerance,
\* whatever f and a are.
C1_FarFieldAtOneMetreIsSL ==
    (pc \in AfterU0 /\ <<f, a, SL>> \in ValidArgs)
        => RWithin(FarFieldAtOneMetre, RInt(SL), Tolerance)

C1_Witness ==
    /\ pc = "done"
    /\ <<f, a, SL>> = <<12, 50, 180>>
    /\ RWithin(FarFieldAtOneMetre, RInt(180), Tolerance)

\* The range r lies beyond 2*(2a) and at or beyond pi*a^2/lambda, with
\* lambda = c / (f * 1000).
InFarField(fk, aCm, r) ==
    /\ RLess(RMul(RInt(4), Radius(aCm)), r)
    /\ ~RLess(r, RDiv(RMul(RPi, RSquare(Radius(aCm))),
                      RDiv(RInt(c), RInt(fk * 1000))))

\* C2: at every range sample beyond 2*(2a) and at or beyond pi*a^2/lambda
\* the returned full-field and far-field intensities differ by less than
\* 1 dB.
C2_ConvergeInFarField ==
    ReturnedValid =>
        \A i \in DOMAIN result[1] :
            InFarField(f, a, result[1][i])
                => RWithin(result[3][i], result[2][i], ROne)

C2_Witness ==
    /\ ReturnedValid
    /\ \E i \in DOMAIN result[1] :
          /\ InFarField(f, a, result[1][i])
          /\ RApart(result[3][i], result[2][i], Tolerance)
          /\ RWithin(result[3][i], result[2][i], ROne)

\* The call f = 12 kHz, a = 0.5 m, SL = 180 dB has returned.
ReturnedScenario == pc = "done" /\ <<f, a, SL>> = <<12, 50, 180>>

\* The far-field and full-field values agree within 1 dB at every returned
\* sample beyond the range r.
AgreeBeyond(r) ==
    \A i \in DOMAIN result[1] :
        RLess(r, result[1][i]) => RWithin(result[3][i], result[2][i], ROne)

\* C3 as stated: in the scenario the two curves agree within 1 dB at every
\* range sample greater than 3 m.
C3_AgreeBeyond3m == ReturnedScenario => AgreeBeyond(RInt(3))

\* C3 amended: in the scenario the two curves agree within 1 dB at every
\* range sample greater than 3.9 m.
C3_AgreeBeyond3m9 == ReturnedScenario => AgreeBeyond(RDec(39, 1))

C3_Witness ==
    /\ ReturnedScenario
    /\ \E i \in DOMAIN result[1] :
          /\ RLess(RDec(39, 1), result[1][i])
          /\ RLess(result[1][i], RInt(4))
          /\ RWithin(result[3][i], result[2][i], ROne)

\* C4: in the scenario there is a range sample below 1 m at which the
\* far-field and full-field values differ by more than 1 dB.
C4_DivergeBelow1m ==
    ReturnedScenario =>
        \E i \in DOMAIN result[1] :
            /\ RLess(result[1][i], ROne)
            /\ RApart(result[3][i], result[2][i], ROne)

C4_Witness ==
    /\ ReturnedScenario
    /\ RLess(result[1][1], ROne)
    /\ RApart(result[3][1], result[2][1], RInt(60))

\* C5: the returned far-field and full-field sequences each have exactly as
\* many elements as the returned range axis.
C5_EqualLengths ==
    pc = "done" =>
        /\ Len(result[2]) = Len(result[1])
        /\ Len(result[3]) = Len(result[1])

C5_Witness ==
    /\ pc = "done"
    /\ Len(result[1]) = NumSamples
    /\ Len(result[2]) = NumSamples
    /\ Len(result[3]) = NumSamples

\* C6: the returned far-field sequence is strictly decreasing along the
\* range axis.
C6_FarFieldDecreasing ==
    ReturnedValid =>
        \A i \in 1..(Len(result[2]) - 1) :
            /\ RLess(result[1][i], result[1][i + 1])
            /\ RLess(result[2][i + 1], result[2][i])

C6_Witness ==
    /\ ReturnedValid
    /\ Len(result[2]) = NumSamples
    /\ RLess(result[2][NumSamples], result[2][1])

\* C7 as stated: a call with a non-positive frequency or radius is rejected
\* and returns no sequences.
C7_RejectsNonPositive ==
    (f <= 0 \/ a <= 0) => (pc # "done" /\ result = <<>>)

\* C7 amended: the calculator does not validate its arguments.  A call with
\* f = 0 or a = 0 ends in the ZeroDivisionError of the U0 statement and
\* returns nothing; any other call, a negative f or a included, raises no
\* error and returns three sequences of NumSamples elements.
C7_OnlyZeroFails ==
    /\ (f = 0 \/ a = 0)
          => /\ pc \in {"omega", "k", "SL_lin", "U0", "ZeroDivisionError"}
             /\ result = <<>>
    /\ (f # 0 /\ a # 0)
          => /\ pc # "ZeroDivisionError"
             /\ pc = "done" => /\ Len(result) = 3
                               /\ \A j \in 1..3 : Len(result[j]) = NumSamples

C7_Witness ==
    /\ pc = "done"
    /\ f < 0
    /\ Len(result) = 3
    /\ result[2][1].k = "fin"
    /\ result[3][1].k = "fin"

\* ---------------------------------------------------------------------
\* Further properties of single calls
\* ---------------------------------------------------------------------

\* x is a finite number above zero.
RPositive(x) == x.k = "fin" /\ x.sg = 1

\* Largest n for which n wavelengths fit in the radius: the path difference
\* sqrt(x^2 + a^2) - x is below a.
MaxOrder(fk, aCm) == (aCm * fk) \div 150 + 1

\* sqrt(x^2 + a^2) - x = n * lambda at sample i, in exact arithmetic, with
\* a = aCm/100, x = (199 + 499*(i-1))/19900 and lambda = 3/(2*fk): cleared of
\* fractions, 199*aCm^2*fk^2 = 300*n*fk*(199 + 499*(i-1)) + 4477500*n^2.
ExactNull(fk, aCm, i, n) ==
    RMul(RInt(199 * aCm * aCm), RInt(fk * fk))
        = RAdd(RMul(RInt(300 * n * fk), RInt(199 + 499 * (i - 1))),
               RMul(RInt(4477500), RInt(n * n)))

C14_FullNotAboveFar ==
    ReturnedValid =>
        \A i \in 1..NumSamples : ~RLess(result[2][i], result[3][i])

C14_Witness ==
    /\ ReturnedValid
    /\ a = 10
    /\ RLess(result[3][NumSamples], result[2][NumSamples])
    /\ RWithin(result[3][NumSamples], result[2][NumSamples], RDec(1, 2))

\* ---------------------------------------------------------------------
\* Properties of the display
\* ---------------------------------------------------------------------

\* The callback has been entered and has called the calculator.
CallbackInvoked == pc \notin {"interact", "update"}

\* C8: after any sequence of slider events the slider values, and with them
\* the arguments the callback passes on, stay within the slider bounds: f an
\* integer in 1..200, a a whole number of hundredths in 0.01..1, SL an
\* integer in 100..220, so that the callback never runs with f <= 0 or
\* a <= 0 and never fails on the division; before the first change the
\* values are f = 12, a = 0.5, SL = 180.
C8_SliderBounds ==
    /\ f_slider \in 1..200
    /\ a_slider \in 1..100
    /\ SL_slider \in 100..220
    /\ changes = 0 => sliders = <<12, 50, 180>>
    /\ CallbackInvoked =>
          /\ f \in 1..200
          /\ a \in 1..100
          /\ SL \in 100..220
          /\ f > 0 /\ a > 0
          /\ pc # "ZeroDivisionError"
    /\ (CallbackInvoked /\ changes = 0) => <<f, a, SL>> = <<12, 50, 180>>

C8_Witness ==
    /\ pc = "idle"
    /\ changes = 2
    /\ <<f, a, SL>> = <<1, 1, 180>>
    /\ sliders = <<1, 1, 180>>

\* C9: once the callback has completed exactly one figure is open and it
\* holds exactly two curves, the far-field one and the full-field one; at
\* no time is more than one figure open or are more than two curves drawn
\* in a figure.
C9_OneFigureTwoCurves ==
    /\ pc = "idle" =>
          /\ DOMAIN figures = {1}
          /\ Len(figures[1]) = 2
          /\ figures[1][1].color = "b"
          /\ figures[1][2].color = "r"
    /\ Cardinality(DOMAIN figures) <= 1
    /\ \A n \in DOMAIN figures : Len(figures[n]) <= 2

C9_Witness ==
    /\ pc = "idle"
    /\ calls = 3
    /\ DOMAIN figures = {1}
    /\ Len(figures[1]) = 2

\* Samples at which the displayed curves are recomputed from the slider
\* values.
CheckedSamples == {1, 100, 200}

\* The wave number and the particle velocity for the slider values.
SliderK == WaveNumber(Omega(f_slider))
SliderU0 == ParticleVelocity(SLLin(SL_slider), SliderK, Radius(a_slider))

\* The calculator's far-field and full-field values at sample i for the
\* current slider values.
SliderFar(i) == IFar(PFar(SliderU0, SliderK, Radius(a_slider), XAxis[i]))
SliderFull(i) == IFull(PFull(SliderU0, SliderK, Radius(a_slider), XAxis[i]))

\* C10: once the callback for the last slider change has completed, the
\* last calculator call was made with the current values of the three
\* sliders and the two displayed curves are what it returned, equal to the
\* calculator's values for the current slider values; the calculator has
\* been called once for the initial display and once for every slider
\* change.
C10_LatestInputWins ==
    /\ pc = "idle" =>
          /\ <<f, a, SL>> = sliders
          /\ DOMAIN figures = {1}
          /\ Len(figures[1]) = 2
          /\ figures[1][1].x = result[1]
          /\ figures[1][1].y = result[2]
          /\ figures[1][2].x = result[1]
          /\ figures[1][2].y = result[3]
          /\ \A i \in CheckedSamples :
                /\ figures[1][1].x[i] = XAxis[i]
                /\ figures[1][1].y[i] = SliderFar(i)
                /\ figures[1][2].y[i] = SliderFull(i)
    /\ pc = "interact" => (calls = 0 /\ changes = 0)
    /\ pc = "update" => calls = changes
    /\ CallbackInvoked => calls = changes + 1

C10_Witness ==
    /\ pc = "idle"
    /\ changes = 2
    /\ calls = 3
    /\ sliders = <<200, 50, 140>>
    /\ figures[1][2].y[1] = SliderFull(1)
    /\ figures[1][2].y[1] # figures[1][1].y[1]


\* ---------------------------------------------------------------------
\* Properties of repeated calls
\* ---------------------------------------------------------------------

\* The finished call had the arguments of an earlier call whose result the
\* caller has kept.
Repeated == pc = "done" /\ <<f, a, SL>> \in DOMAIN returned

\* C11: a call with the arguments of an earlier call returns the very same
\* range, far-field and full-field sequences, whatever calls were made
\* before or in between, and no statement of the calculator changes the
\* module constants rho0 and c or a slider value.
C11_Deterministic ==
    /\ Repeated => result = returned[<<f, a, SL>>]
    /\ rho0 = 1
    /\ c = 1500
    /\ sliders = <<12, 50, 180>>

C11_Witness ==
    /\ Repeated
    /\ Cardinality(DOMAIN returned) >= 2
    /\ Len(result[3]) = NumSamples
    /\ result[3] = returned[<<f, a, SL>>][3]

\* The sequence xs has 200 samples, rises strictly from 0.01 to exactly 5
\* and lies in (0, 5].
AxisWellFormed(xs) ==
    /\ Len(xs) = 200
    /\ xs[1] = RDec(1, 2)
    /\ xs[200] = RInt(5)
    /\ \A i \in 1..200 : RLess(RZero, xs[i]) /\ ~RLess(RInt(5), xs[i])
    /\ \A i \in 1..199 : RLess(xs[i], xs[i + 1])

\* C12: the returned range axis has 200 samples, is strictly increasing,
\* lies in (0, 5], starts at 0.01 and ends at exactly 5, and it is the same
\* sequence as the one every earlier call returned, whatever the arguments
\* were.
C12_FixedRangeAxis ==
    pc = "done" =>
        /\ AxisWellFormed(result[1])
        /\ \A t \in DOMAIN returned : returned[t][1] = result[1]

C12_Witness ==
    /\ pc = "done"
    /\ \E t \in DOMAIN returned :
          /\ t[1] # f
          /\ returned[t][1] = result[1]
    /\ \E t \in DOMAIN returned :
          /\ t[3] # SL
          /\ returned[t][1] = result[1]
    /\ result[1][200] = RInt(5)
    /\ RLess(result[1][199], result[1][200])

\* Kept results of calls with the frequency and radius of the finished call.
SameSource == {t \in DOMAIN returned : t[1] = f /\ t[2] = a}

\* C15 as stated: against a kept result for the same f and a, the far-field
\* and the full-field intensity of the finished call differ at every range
\* sample by exactly the difference of the two source levels.
C15_ExactOffset ==
    pc = "done" =>
        \A t \in SameSource : \A i \in 1..NumSamples :
            /\ RSub(result[2][i], returned[t][2][i]) = RInt(SL - t[3])
            /\ RSub(result[3][i], returned[t][3][i]) = RInt(SL - t[3])

\* C15 amended: against a kept result for the same f and a, the far-field
\* and the full-field intensity of the finished call differ at every range
\* sample by the difference of the two source levels to within 10^-8 dB,
\* and so does the gap between full field and far field stay the same to
\* within 10^-8 dB.
C15_OffsetWithinRounding ==
    pc = "done" =>
        \A t \in SameSource : \A i \in 1..NumSamples :
            /\ RWithin(RSub(result[2][i], returned[t][2][i]),
                       RInt(SL - t[3]), Tolerance)
            /\ RWithin(RSub(result[3][i], returned[t][3][i]),
                       RInt(SL - t[3]), Tolerance)
            /\ RWithin(RSub(result[3][i], result[2][i]),
                       RSub(returned[t][3][i], returned[t][2][i]), Tolerance)

C15_Witness ==
    /\ pc = "done"
    /\ \E t \in SameSource :
          /\ t[3] # SL
          /\ RWithin(RSub(result[3][1], returned[t][3][1]),
                     RInt(SL - t[3]), Tolerance)
          /\ RApart(result[3][1], returned[t][3][1], RInt(10))

\* Kept results of calls with the source level of the finished call and
\* another frequency or radius.
SameLevel ==
    {t \in DOMAIN returned : t[3] = SL /\ <<t[1], t[2]>> # <<f, a>>}

\* C16 as stated: against a kept result for the same SL and another f or a,
\* the far-field sequence of the finished call is identical.
C16_IdenticalFarField ==
    pc = "done" => \A t \in SameLevel : result[2] = returned[t][2]

\* C16 amended: against a kept result for the same SL and another f or a,
\* the far-field sequence of the finished call is the same at every range
\* sample to within 10^-8 dB, while the full-field sequence is not.
C16_FarFieldWithinRounding ==
    pc = "done" =>
        \A t \in SameLevel :
            /\ \A i \in 1..NumSamples :
                  RWithin(result[2][i], returned[t][2][i], Tolerance)
            /\ \E i \in 1..NumSamples :
                  RApart(result[3][i], returned[t][3][i], Tolerance)

C16_Witness ==
    /\ pc = "done"
    /\ \E t \in SameLevel :
          /\ RWithin(result[2][1], returned[t][2][1], Tolerance)
          /\ RWithin(result[2][NumSamples], returned[t][2][NumSamples],
                     Tolerance)
          /\ RApart(result[3][1], returned[t][3][1], ROne)

====
